---------------------------- MODULE Spec2Model ----------------------------
(***************************************************************************)
(* Model of the parallel Mandelbrot renderer in src/src/main.rs.           *)
(*                                                                         *)
(* Strings are sequences of one-character strings.  An f64 is modelled as  *)
(* a small binary floating-point number: the integer n stands for          *)
(* n / Scale, a representable value has at most Prec significant bits and  *)
(* is a multiple of 1 / Scale (the smallest exponent), and every addition, *)
(* subtraction, multiplication, division and conversion rounds its exact   *)
(* result to the nearest representable value, ties to even, as IEEE 754    *)
(* arithmetic does.                                                        *)
(***************************************************************************)
EXTENDS Integers, Sequences, FiniteSets, TLC

(* ------------------------------ bounds -------------------------------- *)

\* largest value num_cpus::get() returns in the model
MaxThreads == 5

\* the smallest exponent of the stand-in for f64 is -FracBits
FracBits == 10

\* significant bits of the stand-in for f64
Prec == 8

\* the longest string drawn from Alphabet as an argument of parse_pair
MaxStrLen == 4

\* the iteration limits 1..MaxLimit are tried for escape_time, besides Limit
MaxLimit == 4

(* ------------------------- program constants -------------------------- *)

\* args.len() that main accepts
ArgCount == 5

\* iteration limit render passes to escape_time
Limit == 255

\* intensity render writes for a point that did not escape
InSet == 16

(* --------------------------- f64 arithmetic --------------------------- *)

RECURSIVE Pow(_, _)
Pow(b, n) == IF n = 0 THEN 1 ELSE b * Pow(b, n - 1)

Scale == Pow(2, FracBits)

\* The operations below are functions, not operators, where their
\* arguments are the results of other operations: an argument is then
\* computed once, before the operation, as in the program.

\* a / b for b > 0, rounded to the nearest integer, ties to even
RoundDiv[a \in Int, b \in Int] ==
    LET q == a \div b
        r == a % b
    IN  IF 2 * r > b THEN q + 1
        ELSE IF 2 * r < b THEN q
        ELSE IF q % 2 = 0 THEN q ELSE q + 1

Abs(n) == IF n < 0 THEN 0 - n ELSE n

\* 2^Prec: a value below it, in units of 1 / Scale, is kept to the unit
Mantissa == Pow(2, Prec)

\* the unit in the last place of the f64 that |num / den| rounds to, in units
\* of 1 / Scale: the least power of two u >= ulp with |num| < lim, where
\* lim = den * 2^Prec * ulp
Ulp[num \in Int, lim \in Int, ulp \in Int] ==
    IF Abs(num) < lim THEN ulp ELSE Ulp[num, 2 * lim, 2 * ulp]

\* ulp * (num / (den * ulp) rounded)
RoundTo[num \in Int, den \in Int, ulp \in Int] ==
    RoundDiv[num, den * ulp] * ulp

\* the f64 nearest to num / (den * Scale), for den > 0
Round[num \in Int, den \in Int] ==
    RoundTo[num, den, Ulp[num, den * Mantissa, 1]]

\* f64 sum, difference, product and quotient (b # 0) of two f64 values
FAdd(a, b) == Round[a + b, 1]

FSub(a, b) == Round[a - b, 1]

FMul(a, b) == Round[a * b, Scale]

FDiv[a \in Int, b \in Int] ==
    IF b > 0 THEN Round[a * Scale, b] ELSE Round[(0 - a) * Scale, 0 - b]

\* `n as f64` for a usize n
AsF64(n) == Round[n * Scale, 1]

\* `n as f64 * x / d as f64` for integers n, d > 0 and an f64 x
ScaleDiv(n, x, d) == FDiv[FMul(AsF64(n), x), AsF64(d)]

Complex(re, im) == [re |-> re, im |-> im]

\* z * z + c on Complex<f64>
Step(z, c) ==
    Complex(FAdd(FSub(FMul(z.re, z.re), FMul(z.im, z.im)), c.re),
            FAdd(FAdd(FMul(z.re, z.im), FMul(z.im, z.re)), c.im))

norm_sqr(z) == FAdd(FMul(z.re, z.re), FMul(z.im, z.im))

(* ------------------------------ strings ------------------------------- *)

Digits == {"0", "1", "2", "3", "4", "5", "6", "7", "8", "9"}

DigitVal(c) ==
    CASE c = "0" -> 0 [] c = "1" -> 1 [] c = "2" -> 2 [] c = "3" -> 3
      [] c = "4" -> 4 [] c = "5" -> 5 [] c = "6" -> 6 [] c = "7" -> 7
      [] c = "8" -> 8 [] c = "9" -> 9

None == [ok |-> FALSE]
Some(v) == [ok |-> TRUE, val |-> v]

AllDigits(s) == \A k \in 1..Len(s) : s[k] \in Digits

RECURSIVE DecVal(_)
DecVal(s) ==
    IF s = <<>> THEN 0
    ELSE 10 * DecVal(SubSeq(s, 1, Len(s) - 1)) + DigitVal(s[Len(s)])

\* the position of the last occurrence instead of the first
FindLast(s, separator) ==
    IF \E k \in 1..Len(s) : s[k] = separator
    THEN CHOOSE k \in 1..Len(s) :
             s[k] = separator /\ \A j \in (k + 1)..Len(s) : s[j] # separator
    ELSE 0

\* s.find(separator): position of the first occurrence, 0 when absent
Find(s, separator) ==
    IF \E k \in 1..Len(s) : s[k] = separator
    THEN CHOOSE k \in 1..Len(s) :
             s[k] = separator /\ \A j \in 1..(k - 1) : s[j] # separator
    ELSE 0

\* usize::from_str: an optional '+', then one or more decimal digits
ParseUsize(s) ==
    LET d == IF s # <<>> /\ s[1] = "+" THEN Tail(s) ELSE s
    IN  IF d # <<>> /\ AllDigits(d) THEN Some(DecVal(d)) ELSE None

\* i32::from_str: an optional sign, then one or more decimal digits
ParseI32(s) ==
    LET signed == s # <<>> /\ s[1] \in {"+", "-"}
        d      == IF signed THEN Tail(s) ELSE s
    IN  IF d # <<>> /\ AllDigits(d)
        THEN Some(IF s[1] = "-" THEN 0 - DecVal(d) ELSE DecVal(d))
        ELSE None

\* f64::from_str on decimal literals without exponent: an optional sign,
\* digits with an optional '.', at least one digit in all; the decimal value
\* is rounded to the nearest f64
ParseF64(s) ==
    LET signed == s # <<>> /\ s[1] \in {"+", "-"}
        neg    == s # <<>> /\ s[1] = "-"
        body   == IF signed THEN Tail(s) ELSE s
        dot    == Find(body, ".")
        ip     == IF dot = 0 THEN body ELSE SubSeq(body, 1, dot - 1)
        fp     == IF dot = 0 THEN <<>> ELSE SubSeq(body, dot + 1, Len(body))
        den    == Pow(10, Len(fp))
        mag    == Round[(DecVal(ip) * den + DecVal(fp)) * Scale, den]
    IN  IF AllDigits(ip) /\ AllDigits(fp) /\ Len(ip) + Len(fp) > 0
        THEN Some(IF neg THEN 0 - mag ELSE mag)
        ELSE None

\* T::from_str(s) for the types main and the tests parse, T named by a string
FromStr(T, s) ==
    CASE T = "usize" -> ParseUsize(s)
      [] T = "i32" -> ParseI32(s)
      [] T = "f64" -> ParseF64(s)

\* parse_pair::<T>(s, separator)
parse_pair(T, s, separator) ==
    LET index == Find(s, separator)
    IN  IF index = 0 THEN None
        ELSE LET l == FromStr(T, SubSeq(s, 1, index - 1))
                 r == FromStr(T, SubSeq(s, index + 1, Len(s)))
             IN  IF l.ok /\ r.ok THEN Some(<<l.val, r.val>>) ELSE None

parse_complex(s) ==
    LET p == parse_pair("f64", s, ",")
    IN  IF p.ok THEN Some(Complex(p.val[1], p.val[2])) ELSE None

(* --------------------------- pure functions --------------------------- *)

\* Complex<f64> values, and the state of the loop of escape_time: z, the loop
\* index i, and escaped, set once `return Some(i)` has been taken
ComplexF64 == [re : Int, im : Int]

LoopState == [z : ComplexF64, i : Nat, escaped : BOOLEAN]

\* a test that returns the number of passes made, not the index of the pass
TestCountsPasses[i \in Nat, z \in ComplexF64] ==
    IF norm_sqr(z) > 4 * Scale
    THEN [z |-> z, i |-> i + 1, escaped |-> TRUE]
    ELSE [z |-> z, i |-> i + 1, escaped |-> FALSE]

\* the test of the loop body on the new z in pass i: return Some(i), or go on
\* to pass i + 1
Test[i \in Nat, z \in ComplexF64] ==
    IF norm_sqr(z) > 4 * Scale
    THEN [z |-> z, i |-> i, escaped |-> TRUE]
    ELSE [z |-> z, i |-> i + 1, escaped |-> FALSE]

\* a pass of the loop body that counts itself before the test
IterateCountsPasses(st, c) == TestCountsPasses[st.i, Step(st.z, c)]

\* One pass of the loop body of escape_time on the loop state st
Iterate(st, c) == Test[st.i, Step(st.z, c)]

\* n passes of the loop from st, stopping at the return.  The passes are
\* split in halves to keep the evaluation shallow; the passes made are those
\* of the loop, in order.
Loop[st \in LoopState, c \in ComplexF64, n \in Nat] ==
    IF st.escaped \/ n = 0 THEN st
    ELSE IF n = 1 THEN Iterate(st, c)
    ELSE Loop[Loop[st, c, n \div 2], c, n - n \div 2]

\* what escape_time returns from the final loop state
Returned[st \in LoopState] == IF st.escaped THEN Some(st.i) ELSE None

escape_time(c, limit) ==
    Returned[Loop[[z |-> Complex(0, 0), i |-> 0, escaped |-> FALSE], c, limit]]

\* a mapping that divides the row offset by the width of the image
PixelToPointByWidth(bnds, pixel, ul, lr) ==
    LET width  == FSub(lr.re, ul.re)
        height == FSub(ul.im, lr.im)
    IN  Complex(FAdd(ul.re, ScaleDiv(pixel[1], width, bnds[1])),
                FSub(ul.im, ScaleDiv(pixel[2], height, bnds[1])))

\* bnds and pixel are <<column, row>> pairs; both components of bnds positive
pixel_to_point(bnds, pixel, ul, lr) ==
    LET width  == FSub(lr.re, ul.re)
        height == FSub(ul.im, lr.im)
    IN  Complex(FAdd(ul.re, ScaleDiv(pixel[1], width, bnds[1])),
                FSub(ul.im, ScaleDiv(pixel[2], height, bnds[2])))

\* `count as u8`
AsU8(count) == count % 256

\* Option<usize>
OptionUsize == {None} \cup [ok : {TRUE}, val : Nat]

\* a match that stores 0 for a point that did not escape
MatchZero[e \in OptionUsize] == IF e.ok THEN AsU8(e.val) ELSE 0

\* the match in render: None => 16, Some(count) => count as u8
Match[e \in OptionUsize] == IF e.ok THEN AsU8(e.val) ELSE InSet

\* the byte stored for one point when None is matched to 0
IntensityZero(point) == MatchZero[escape_time(point, Limit)]

\* the byte render stores for one point
Intensity(point) == Match[escape_time(point, Limit)]

\* rounding up and adding one as well
RowsPerBandCeilPlusOne(height, nthreads) ==
    (height + nthreads - 1) \div nthreads + 1

\* the quotient rounded up instead of the quotient plus one
RowsPerBandCeil(height, nthreads) == (height + nthreads - 1) \div nthreads

\* the quotient without the added one
RowsPerBandFloor(height, nthreads) == height \div nthreads

\* bounds.1 / threads + 1
RowsPerBand(height, nthreads) == height \div nthreads + 1

\* chunks_exact_mut in place of chunks_mut: a shorter last chunk is left out
ChunksExactMut(len, chunk_size) ==
    [k \in 1..(len \div chunk_size) |->
        [start |-> (k - 1) * chunk_size, len |-> chunk_size]]

\* chunks that each start one element before the end of the previous one
ChunksOverlap(len, chunk_size) ==
    [k \in 1..((len + chunk_size - 1) \div chunk_size) |->
        [start |-> IF k = 1 THEN 0 ELSE (k - 1) * chunk_size - 1,
         len   |-> IF k * chunk_size <= len THEN chunk_size
                   ELSE len - (k - 1) * chunk_size]]

\* slice::chunks_mut(chunk_size) on a slice of length len, chunk_size > 0:
\* consecutive sub-slices, each given by its first index and its length
ChunksMut(len, chunk_size) ==
    [k \in 1..((len + chunk_size - 1) \div chunk_size) |->
        [start |-> (k - 1) * chunk_size,
         len   |-> IF k * chunk_size <= len THEN chunk_size
                   ELSE len - (k - 1) * chunk_size]]

\* the buffer indices of a band slice
Range(band) == band.start .. (band.start + band.len - 1)

(* ------------------------------- inputs ------------------------------- *)

\* PIXELS arguments tried: well-formed ones, a zero width, a zero height and
\* malformed ones
BoundsStrs ==
    { <<"1", "x", "1">>, <<"2", "x", "3">>, <<"1", "x", "4">>,
      <<"0", "x", "2">>, <<"2", "x", "0">>,
      <<"2", "x">>, <<"x", "3">>, <<"2", ",", "3">>, <<"2", "x", "3", "y">> }

\* UPPERLEFT / LOWERRIGHT argument pairs tried
CornerStrs ==
    { << <<"-", "2", ",", "0", ".", "7">>, <<"-", "1", ",", "-", "1">> >>,
      << <<"-", "2", ",", "0", ".", "5">>,
         <<"-", "1", ".", "2", ",", "0", ".", "2">> >>,
      << <<"-", "2", ",">>, <<"2", ",", "-", "2">> >>,
      << <<"-", "2", ",", "2">>, <<"2", "-", "2">> >> }

Prog == <<"m">>

File == <<"o">>

ArgVectors ==
    { <<Prog, File, b, c[1], c[2]>> : b \in BoundsStrs, c \in CornerStrs }
      \cup { <<Prog>>, <<Prog, File, <<"2", "x", "3">>, <<"0", ",", "0">> >>,
             <<Prog, File, <<"2", "x", "3">>, <<"0", ",", "0">>,
               <<"0", ",", "0">>, <<"0", ",", "0">> >> }

(* ------------------------------- state -------------------------------- *)

VARIABLES
    args,           \* std::env::args()
    pc,             \* where main is
    error,          \* why main ended without finishing, "none" otherwise
    bounds,         \* <<width, height>> once parsed
    upper_left,
    lower_right,
    allocated,      \* the pixel buffer exists
    pixels,         \* the buffer, indexed from 0
    threads,        \* num_cpus::get(), 0 before it is read
    rows_per_band,
    bands,          \* the chunks of the buffer, in order
    i,              \* bands handed to spawned tasks so far
    tasks,          \* the band task spawned for each band
    writers,        \* history: per buffer index, the bands that wrote it
    output,         \* the output file: "absent", "created" or "written"
    call,           \* the function under test and its arguments; NoCall in main
    result          \* <<>>, then <<the value the function under test returned>>

vars == <<args, pc, error, bounds, upper_left, lower_right, allocated, pixels,
          threads, rows_per_band, bands, i, tasks, writers, output, call,
          result>>

\* no function is under test: the program runs from main
NoCall ==
    [fn |-> "main", T |-> "", s |-> <<>>, separator |-> "",
     bounds |-> <<0, 0>>, pixel |-> <<0, 0>>,
     upper_left |-> Complex(0, 0), lower_right |-> Complex(0, 0),
     c |-> Complex(0, 0), limit |-> 0]

Init ==
    /\ args \in ArgVectors
    /\ pc = "check_args"
    /\ error = "none"
    /\ bounds = <<0, 0>>
    /\ upper_left = Complex(0, 0)
    /\ lower_right = Complex(0, 0)
    /\ allocated = FALSE
    /\ pixels = <<>>
    /\ threads = 0
    /\ rows_per_band = 0
    /\ bands = <<>>
    /\ i = 0
    /\ tasks = <<>>
    /\ writers = <<>>
    /\ output = "absent"
    /\ call = NoCall
    /\ result = <<>>

\* the error is recorded but main goes on
FailAndContinue(e) == pc' = "allocate" /\ error' = e

\* main ends with the given error
Fail(e) == pc' = "failed" /\ error' = e

(* -------------------------------- main -------------------------------- *)

\* args.len() != 5: usage on stderr and exit(1)
CheckArgs ==
    /\ pc = "check_args"
    /\ IF Len(args) # ArgCount
       THEN Fail("usage")
       ELSE pc' = "parse_bounds" /\ error' = error
    /\ UNCHANGED <<call, result>>
    /\ UNCHANGED <<args, bounds, upper_left, lower_right, allocated, pixels,
                   threads, rows_per_band, bands, i, tasks, writers, output>>

ParseBounds ==
    /\ pc = "parse_bounds"
    /\ LET r == parse_pair("usize", args[3], "x")
       IN  IF r.ok
           THEN pc' = "parse_upper_left" /\ error' = error /\ bounds' = r.val
           ELSE Fail("bounds") /\ bounds' = bounds
    /\ UNCHANGED <<call, result>>
    /\ UNCHANGED <<args, upper_left, lower_right, allocated, pixels, threads,
                   rows_per_band, bands, i, tasks, writers, output>>

ParseUpperLeft ==
    /\ pc = "parse_upper_left"
    /\ LET r == parse_complex(args[4])
       IN  IF r.ok
           THEN pc' = "parse_lower_right" /\ error' = error
                /\ upper_left' = r.val
           ELSE Fail("upper_left") /\ upper_left' = upper_left
    /\ UNCHANGED <<call, result>>
    /\ UNCHANGED <<args, bounds, lower_right, allocated, pixels, threads,
                   rows_per_band, bands, i, tasks, writers, output>>

ParseLowerRight ==
    /\ pc = "parse_lower_right"
    /\ LET r == parse_complex(args[5])
       IN  IF r.ok
           THEN pc' = "allocate" /\ error' = error /\ lower_right' = r.val
           ELSE Fail("lower_right") /\ lower_right' = lower_right
    /\ UNCHANGED <<call, result>>
    /\ UNCHANGED <<args, bounds, upper_left, allocated, pixels, threads,
                   rows_per_band, bands, i, tasks, writers, output>>

\* vec![0; bounds.0 * bounds.1], num_cpus::get(), rows_per_band
Allocate ==
    /\ pc = "allocate"
    /\ \E n \in 1..MaxThreads :
          /\ threads' = n
          /\ rows_per_band' = RowsPerBand(bounds[2], n)
    /\ allocated' = TRUE
    /\ pixels' = [k \in 0..(bounds[1] * bounds[2] - 1) |-> 0]
    /\ writers' = [k \in 0..(bounds[1] * bounds[2] - 1) |-> <<>>]
    /\ pc' = "chunks"
    /\ UNCHANGED <<call, result>>
    /\ UNCHANGED <<args, error, bounds, upper_left, lower_right, bands, i,
                   tasks, output>>

\* pixels.chunks_mut(rows_per_band * bounds.0).collect(); chunks_mut panics
\* on a chunk size of 0
Chunks ==
    /\ pc = "chunks"
    /\ IF rows_per_band * bounds[1] = 0
       THEN Fail("chunk_size") /\ bands' = bands
       ELSE /\ bands' = ChunksMut(bounds[1] * bounds[2],
                                  rows_per_band * bounds[1])
            /\ pc' = "spawn" /\ error' = error
    /\ UNCHANGED <<call, result>>
    /\ UNCHANGED <<args, bounds, upper_left, lower_right, allocated, pixels,
                   threads, rows_per_band, i, tasks, writers, output>>

\* a band task given rows_per_band rows whatever the length of its band
BandTaskFullBand(rpb, n, band) ==
    LET top    == rpb * n
        height == rpb
    IN  [band        |-> n + 1,
         bounds      |-> <<bounds[1], height>>,
         upper_left  |-> pixel_to_point(bounds, <<0, top>>,
                                        upper_left, lower_right),
         lower_right |-> pixel_to_point(bounds, <<bounds[1], top + height>>,
                                        upper_left, lower_right),
         row         |-> 0,
         column      |-> 0,
         status      |-> "spawned"]

\* the task the body of the for loop spawns for band number n (from 0),
\* rpb being rows_per_band
BandTask(rpb, n, band) ==
    LET top    == rpb * n
        height == band.len \div bounds[1]
    IN  [band        |-> n + 1,
         bounds      |-> <<bounds[1], height>>,
         upper_left  |-> pixel_to_point(bounds, <<0, top>>,
                                        upper_left, lower_right),
         lower_right |-> pixel_to_point(bounds, <<bounds[1], top + height>>,
                                        upper_left, lower_right),
         row         |-> 0,
         column      |-> 0,
         status      |-> "spawned"]

\* one iteration of the for loop in the scope closure
Spawn ==
    /\ pc = "spawn"
    /\ i < Len(bands)
    /\ tasks' = Append(tasks, BandTask(rows_per_band, i, bands[i + 1]))
    /\ i' = i + 1
    /\ UNCHANGED <<call, result>>
    /\ UNCHANGED <<args, pc, error, bounds, upper_left, lower_right,
                   allocated, pixels, threads, rows_per_band, bands, writers,
                   output>>

\* the for loop ends, the closure returns and the scope starts joining
EndSpawn ==
    /\ pc = "spawn"
    /\ i = Len(bands)
    /\ pc' = "join"
    /\ UNCHANGED <<call, result>>
    /\ UNCHANGED <<args, error, bounds, upper_left, lower_right, allocated,
                   pixels, threads, rows_per_band, bands, i, tasks, writers,
                   output>>

\* a join that waits only for the tasks to have started
FinishedOnceStarted(tk) == tk.status # "spawned"

\* the thread of a band task has ended
Finished(tk) == tk.status \in {"done", "panicked"}

\* a scope result that drops the panics of the spawned threads
ScopeOkAlways(ts) == TRUE

\* a scope result with the test for panics inverted
ScopeOkInverted(ts) == \E t \in 1..Len(ts) : ts[t].status = "panicked"

\* the result of crossbeam::scope over the ended tasks ts is Ok
ScopeOk(ts) == \A t \in 1..Len(ts) : ts[t].status # "panicked"

\* crossbeam::scope returns once every spawned thread has ended: Err when one
\* of them panicked, and expect() then panics; Ok otherwise, and main calls
\* write_image
Join ==
    /\ pc = "join"
    /\ \A t \in 1..Len(tasks) : Finished(tasks[t])
    /\ IF ScopeOk(tasks)
       THEN pc' = "write_image" /\ error' = error
       ELSE Fail("render")
    /\ UNCHANGED <<call, result>>
    /\ UNCHANGED <<args, bounds, upper_left, lower_right, allocated, pixels,
                   threads, rows_per_band, bands, i, tasks, writers, output>>

\* File::create(filename)?
CreateFile ==
    /\ pc = "write_image"
    /\ \/ pc' = "encode" /\ error' = error /\ output' = "created"
       \/ Fail("io") /\ output' = output
    /\ UNCHANGED <<call, result>>
    /\ UNCHANGED <<args, bounds, upper_left, lower_right, allocated, pixels,
                   threads, rows_per_band, bands, i, tasks, writers>>

\* encoder.write_image(pixels, ...)
Encode ==
    /\ pc = "encode"
    /\ \/ pc' = "done" /\ error' = error /\ output' = "written"
       \/ Fail("io") /\ output' = output
    /\ UNCHANGED <<call, result>>
    /\ UNCHANGED <<args, bounds, upper_left, lower_right, allocated, pixels,
                   threads, rows_per_band, bands, i, tasks, writers>>

(* ----------------------------- band tasks ----------------------------- *)

TaskUnchanged ==
    UNCHANGED <<args, pc, error, bounds, upper_left, lower_right, allocated,
                threads, rows_per_band, bands, i, output, call, result>>

\* assert!(pixels.len() == bounds.0 * bounds.1) at the start of render
RenderAssert(t) ==
    /\ tasks[t].status = "spawned"
    /\ LET ok == bands[tasks[t].band].len
                     = tasks[t].bounds[1] * tasks[t].bounds[2]
       IN  tasks' = [tasks EXCEPT
                       ![t].status = IF ok THEN "running" ELSE "panicked"]
    /\ UNCHANGED <<pixels, writers>>
    /\ TaskUnchanged

\* one iteration of the inner loop of render: pixels[row * bounds.0 + column]
\* of the band slice is written, and the loops advance
RenderPixel(t) ==
    LET tk    == tasks[t]
        band  == bands[tk.band]
        index == tk.row * tk.bounds[1] + tk.column
        point == pixel_to_point(tk.bounds, <<tk.column, tk.row>>,
                                tk.upper_left, tk.lower_right)
        last  == tk.column + 1 = tk.bounds[1]
    IN  /\ tk.status = "running"
        /\ tk.row < tk.bounds[2]
        /\ IF index < band.len
           THEN /\ pixels' = [pixels EXCEPT
                                ![band.start + index] = Intensity(point)]
                /\ writers' = [writers EXCEPT
                                 ![band.start + index] = Append(@, tk.band)]
                /\ tasks' = [tasks EXCEPT
                               ![t].column = IF last THEN 0 ELSE tk.column + 1,
                               ![t].row = IF last THEN tk.row + 1 ELSE tk.row]
           ELSE /\ tasks' = [tasks EXCEPT ![t].status = "panicked"]
                /\ UNCHANGED <<pixels, writers>>
        /\ TaskUnchanged

\* the loops of render are over and the spawned closure returns
RenderReturn(t) ==
    /\ tasks[t].status = "running"
    /\ tasks[t].row = tasks[t].bounds[2]
    /\ tasks' = [tasks EXCEPT ![t].status = "done"]
    /\ UNCHANGED <<pixels, writers>>
    /\ TaskUnchanged

\* a band task that has not returned panics: any fault that unwinds the
\* spawned thread (no statement of render raises one for the bands main builds)
TaskPanic(t) ==
    /\ tasks[t].status \in {"spawned", "running"}
    /\ tasks' = [tasks EXCEPT ![t].status = "panicked"]
    /\ UNCHANGED <<pixels, writers>>
    /\ TaskUnchanged

Next ==
    \/ CheckArgs
    \/ ParseBounds
    \/ ParseUpperLeft
    \/ ParseLowerRight
    \/ Allocate
    \/ Chunks
    \/ Spawn
    \/ EndSpawn
    \/ Join
    \/ CreateFile
    \/ Encode
    \/ \E t \in 1..Len(tasks) : RenderAssert(t)
    \/ \E t \in 1..Len(tasks) : RenderPixel(t)
    \/ \E t \in 1..Len(tasks) : RenderReturn(t)
    \/ \E t \in 1..Len(tasks) : TaskPanic(t)

Spec == Init /\ [][Next]_vars

(* ----------------------- runs without task faults --------------------- *)

\* the steps of main
MainStep ==
    \/ CheckArgs
    \/ ParseBounds
    \/ ParseUpperLeft
    \/ ParseLowerRight
    \/ Allocate
    \/ Chunks
    \/ Spawn
    \/ EndSpawn
    \/ Join
    \/ CreateFile
    \/ Encode

\* the steps of the t-th band task, once it is spawned
TaskStep(t) ==
    /\ t \in 1..Len(tasks)
    /\ \/ RenderAssert(t)
       \/ RenderPixel(t)
       \/ RenderReturn(t)

\* the steps of a run in which no band task panics from outside render
NextNoPanic ==
    \/ MainStep
    \/ \E t \in 1..Len(tasks) : TaskStep(t)

\* No band task panics, and the main thread and every band thread (at most
\* one per worker, see BandCountAtMostWorkers) keep being scheduled while they
\* can run.
FairSpec ==
    /\ Init
    /\ [][NextNoPanic]_vars
    /\ WF_vars(MainStep)
    /\ \A t \in 1..MaxThreads : WF_vars(TaskStep(t))

(* --------------------- the functions, one at a time -------------------- *)

\* The functions of the program called on their own, as the unit tests call
\* them: the arguments are drawn in the initial state, one step makes the call
\* (render takes its steps one pixel at a time).

\* the f64 a decimal literal num / den denotes
Lit(num, den) == Round[num * Scale, den]

\* the characters of the strings tried: a digit, the separators, the decimal
\* point and the sign
Alphabet == {"1", ",", "x", ".", "-"}

Strings(n) == UNION {[1..k -> Alphabet] : k \in 0..n}

Types == {"usize", "i32", "f64"}

Separators == {",", "x", "-"}

ParsePairCall(T, s, separator) ==
    [NoCall EXCEPT !.fn = "parse_pair", !.T = T, !.s = s,
                   !.separator = separator]

\* the calls of test_parse_pair
TestParsePairCalls ==
    { ParsePairCall("i32", <<>>, ","),
      ParsePairCall("i32", <<"1", "0", ",">>, ","),
      ParsePairCall("i32", <<",", "1", "0">>, ","),
      ParsePairCall("i32", <<"1", "0", ",", "2", "0">>, ","),
      ParsePairCall("i32", <<"1", "0", ",", "2", "0", "x", "y">>, ","),
      ParsePairCall("f64", <<"0", ".", "5", "x">>, "x"),
      ParsePairCall("f64", <<"0", ".", "5", "x", "1", ".", "5">>, "x") }

ParsePairCalls ==
    TestParsePairCalls \cup
    {ParsePairCall(T, s, separator) :
        T \in Types, s \in Strings(MaxStrLen), separator \in Separators}

\* the strings of test_parse_complex
TestParseComplexStrs ==
    { <<"1", ".", "2", "5", ",", "-", "0", ".", "0", "6", "2", "5">>,
      <<",", "-", "0", ".", "0", "6", "2", "5">> }

ParseComplexCalls ==
    {[NoCall EXCEPT !.fn = "parse_complex", !.s = s] :
        s \in TestParseComplexStrs \cup Strings(MaxStrLen - 1)}

\* the viewports tried: that of test_pixel_to_point, two with corners that
\* are not binary fractions, and the degenerate one of test_render
Viewports ==
    { <<Complex(Lit(-1, 1), Lit(1, 1)), Complex(Lit(1, 1), Lit(-1, 1))>>,
      <<Complex(Lit(1, 10), Lit(7, 10)), Complex(Lit(3, 10), Lit(2, 10))>>,
      <<Complex(Lit(-2, 1), Lit(7, 10)), Complex(Lit(-1, 1), Lit(-1, 1))>>,
      <<Complex(0, 0), Complex(0, 0)>> }

PointBounds == {<<1, 1>>, <<2, 3>>, <<10, 10>>, <<100, 100>>}

\* the pixels tried for bounds b: the corners, the pixel of
\* test_pixel_to_point and some inner ones
PixelsOf(b) ==
    {p \in {<<0, 0>>, b, <<b[1] - 1, b[2] - 1>>, <<25, 75>>,
            <<b[1] \div 2, b[2] \div 3>>} : p[1] <= b[1] /\ p[2] <= b[2]}

PixelToPointCalls ==
    UNION {{[NoCall EXCEPT !.fn = "pixel_to_point", !.bounds = b, !.pixel = p,
                           !.upper_left = v[1], !.lower_right = v[2]] :
               p \in PixelsOf(b), v \in Viewports} : b \in PointBounds}

\* the points c tried: a grid of step 1/4 over [-2, 2] x [-2, 2]
Grid ==
    {Complex(a * (Scale \div 4), b * (Scale \div 4)) :
        a \in (0 - 8)..8, b \in (0 - 8)..8}

EscapeTimeCalls ==
    {[NoCall EXCEPT !.fn = "escape_time", !.c = c, !.limit = limit] :
        c \in Grid, limit \in (1..MaxLimit) \cup {Limit}}

RenderBounds == {<<1, 1>>, <<2, 3>>, <<10, 10>>}

RenderCalls ==
    {[NoCall EXCEPT !.fn = "render", !.bounds = b, !.upper_left = v[1],
                    !.lower_right = v[2]] :
        b \in RenderBounds, v \in Viewports}

Calls ==
    ParsePairCalls \cup ParseComplexCalls \cup PixelToPointCalls
        \cup EscapeTimeCalls \cup RenderCalls

\* The state in which a test makes its call.  For render it holds the slice
\* the test allocates, as the one band of a buffer, and the task that is the
\* call of render on it.
UnitInit ==
    /\ call \in Calls
    /\ result = <<>>
    /\ args = <<>>
    /\ pc = "test"
    /\ error = "none"
    /\ threads = 0
    /\ rows_per_band = 0
    /\ i = 0
    /\ output = "absent"
    /\ bounds = call.bounds
    /\ upper_left = call.upper_left
    /\ lower_right = call.lower_right
    /\ allocated = (call.fn = "render")
    /\ pixels = IF call.fn = "render"
                THEN [k \in 0..(call.bounds[1] * call.bounds[2] - 1) |-> 0]
                ELSE <<>>
    /\ writers = IF call.fn = "render"
                 THEN [k \in 0..(call.bounds[1] * call.bounds[2] - 1) |-> <<>>]
                 ELSE <<>>
    /\ bands = IF call.fn = "render"
               THEN ChunksMut(call.bounds[1] * call.bounds[2],
                              call.bounds[1] * call.bounds[2])
               ELSE <<>>
    /\ tasks = IF call.fn = "render"
               THEN << [band        |-> 1,
                        bounds      |-> call.bounds,
                        upper_left  |-> call.upper_left,
                        lower_right |-> call.lower_right,
                        row         |-> 0,
                        column      |-> 0,
                        status      |-> "spawned"] >>
               ELSE <<>>

\* the call returns the value v
Return(v) ==
    /\ result = <<>>
    /\ result' = <<v>>
    /\ UNCHANGED <<args, pc, error, bounds, upper_left, lower_right,
                   allocated, pixels, threads, rows_per_band, bands, i,
                   tasks, writers, output, call>>

CallParsePair ==
    /\ call.fn = "parse_pair"
    /\ Return(parse_pair(call.T, call.s, call.separator))

CallParseComplex ==
    /\ call.fn = "parse_complex"
    /\ Return(parse_complex(call.s))

CallPixelToPoint ==
    /\ call.fn = "pixel_to_point"
    /\ Return(pixel_to_point(call.bounds, call.pixel, call.upper_left,
                             call.lower_right))

CallEscapeTime ==
    /\ call.fn = "escape_time"
    /\ Return(escape_time(call.c, call.limit))

\* a step of the call of render
CallRender ==
    /\ call.fn = "render"
    /\ TaskStep(1)

UnitNext ==
    \/ CallParsePair
    \/ CallParseComplex
    \/ CallPixelToPoint
    \/ CallEscapeTime
    \/ CallRender

UnitSpec == UnitInit /\ [][UnitNext]_vars

(* ------------------------- derived predicates ------------------------- *)

Width == bounds[1]

Height == bounds[2]

\* main has collected the bands (line 199 has run without panicking)
BandsBuilt ==
    \/ pc \in {"spawn", "join", "write_image", "encode", "done"}
    \/ pc = "failed" /\ error \in {"render", "io"}

\* the for loop over the bands has ended
AllSpawned == BandsBuilt /\ pc # "spawn"

\* write_image has been called
EncoderStarted ==
    \/ pc \in {"write_image", "encode", "done"}
    \/ pc = "failed" /\ error = "io"

\* the rows [rows_per_band * i, rows_per_band * i + band_height_i) of the
\* n-th band, i = n - 1
BandRows(n) ==
    (rows_per_band * (n - 1)) ..
        (rows_per_band * (n - 1) + bands[n].len \div Width - 1)

SomePanicked == \E t \in 1..Len(tasks) : tasks[t].status = "panicked"

\* the least q with q * d >= n, for d > 0
Ceil(n, d) == CHOOSE q \in 0..n : q * d >= n /\ (q = 0 \/ (q - 1) * d < n)

\* The buffer main ends up with for the parsed bounds and corners when
\* num_cpus::get() is n: every index is written by the task of the band that
\* holds it, with that task's bounds and corners.
RenderedBuffer(n) ==
    LET rpb    == RowsPerBand(Height, n)
        chunks == ChunksMut(Width * Height, rpb * Width)
    IN  [idx \in 0..(Width * Height - 1) |->
            LET b     == CHOOSE k \in 1..Len(chunks) : idx \in Range(chunks[k])
                tk    == BandTask(rpb, b - 1, chunks[b])
                local == idx - chunks[b].start
            IN  Intensity(pixel_to_point(tk.bounds,
                                         <<local % Width, local \div Width>>,
                                         tk.upper_left, tk.lower_right))]

\* the configuration errors: wrong argument count or an unparsable argument
ConfigErrors == {"usage", "bounds", "upper_left", "lower_right"}

\* the arguments are rejected by main before line 193
ConfigBad ==
    \/ Len(args) # ArgCount
    \/ ~parse_pair("usize", args[3], "x").ok
    \/ ~parse_complex(args[4]).ok
    \/ ~parse_complex(args[5]).ok

(* ------------------------------- claims ------------------------------- *)

\* C1: for positive width and height and any worker count, the row ranges
\* of the bands main builds are pairwise disjoint and their union is exactly
\* [0, height), whether or not the worker count divides the height.
Tiling ==
    (BandsBuilt /\ Width > 0 /\ Height > 0) =>
        /\ \A m, n \in 1..Len(bands) :
              m # n => BandRows(m) \cap BandRows(n) = {}
        /\ UNION {BandRows(n) : n \in 1..Len(bands)} = 0..(Height - 1)

\* a render whose last band is shorter than the others
TilingWitness ==
    /\ BandsBuilt
    /\ Len(bands) >= 2
    /\ Height % threads # 0
    /\ bands[Len(bands)].len < bands[1].len

\* C2: every buffer index lies in the range of at most one band task, every
\* write a task has made lies in the range of its own band, and no index has
\* been written by two different tasks.
ExclusiveOwnership ==
    \A idx \in DOMAIN pixels :
        /\ Cardinality({t \in 1..Len(tasks) :
                           idx \in Range(bands[tasks[t].band])}) <= 1
        /\ \A k \in 1..Len(writers[idx]) :
              /\ idx \in Range(bands[writers[idx][k]])
              /\ writers[idx][k] = writers[idx][1]

\* two band tasks are in the middle of their writes at the same time
ExclusiveOwnershipWitness ==
    \E t, u \in 1..Len(tasks) :
        /\ t # u
        /\ tasks[t].status = "running" /\ tasks[u].status = "running"
        /\ tasks[t].row + tasks[t].column > 0
        /\ tasks[u].row + tasks[u].column > 0
        /\ tasks[t].row < tasks[t].bounds[2]
        /\ tasks[u].row < tasks[u].bounds[2]

\* C3: write_image is called only after every band has been given a task
\* and every band task has run to completion.
JoinBeforeEncode ==
    EncoderStarted =>
        /\ Len(tasks) = Len(bands)
        /\ \A t \in 1..Len(tasks) : tasks[t].status = "done"

\* the encoder runs after several band tasks
JoinBeforeEncodeWitness == pc = "encode" /\ Len(tasks) >= 2

\* C4: the buffer has length width * height and is zero where nothing has
\* been written; no index is ever written twice; when the buffer is handed
\* to write_image every index has been written exactly once; and no step
\* after the hand-off changes the buffer.
BufferLifecycle ==
    /\ [](allocated =>
            /\ DOMAIN pixels = 0..(Width * Height - 1)
            /\ \A idx \in DOMAIN pixels :
                  /\ Len(writers[idx]) <= 1
                  /\ writers[idx] = <<>> => pixels[idx] = 0
                  /\ EncoderStarted => Len(writers[idx]) = 1)
    /\ [][EncoderStarted => pixels' = pixels /\ writers' = writers]_vars

\* a buffer of several bands has been handed to the encoder
BufferLifecycleWitness ==
    pc = "done" /\ Len(bands) >= 2 /\ Width * Height >= 4

\* C5: once a band task has panicked, write_image is never called and the
\* output file is never created; after the join the render has failed.
AllOrNothing ==
    SomePanicked =>
        /\ ~EncoderStarted
        /\ output = "absent"
        /\ pc \in {"spawn", "join"} \/ (pc = "failed" /\ error = "render")

\* a render that failed although some bands completed
AllOrNothingWitness ==
    /\ pc = "failed" /\ error = "render"
    /\ \E t \in 1..Len(tasks) : tasks[t].status = "done"
    /\ \E t \in 1..Len(tasks) : tasks[t].status = "panicked"

\* C6: for the same bounds and viewport the finished buffer is the one a
\* single worker produces, whatever the worker count and the interleaving.
DeterminismAcrossWorkerCounts ==
    (pc = "done" /\ Width > 0 /\ Height > 0) => pixels = RenderedBuffer(1)

\* C7 as stated: rows_per_band is the height divided by the worker count,
\* rounded up.
RowsPerBandIsCeil ==
    (BandsBuilt /\ Height > 0) => rows_per_band = Ceil(Height, threads)

\* C7 amended: rows_per_band is the rounded-up quotient when the worker
\* count does not divide the height, and one more than it when it does.
RowsPerBandIsFloorPlusOne ==
    (BandsBuilt /\ Height > 0) =>
        rows_per_band = Ceil(Height, threads)
                          + (IF Height % threads = 0 THEN 1 ELSE 0)

\* a worker count that divides the height, and one that does not
RowsPerBandWitness ==
    /\ BandsBuilt
    /\ Height = 4
    /\ threads \in {2, 3}
    /\ rows_per_band = IF threads = 2 THEN 3 ELSE 2

\* C8 as stated: with 1 <= worker_count <= height there are exactly
\* worker_count band tasks.
OneBandPerWorker ==
    (AllSpawned /\ Width > 0 /\ Height > 0 /\ threads <= Height) =>
        Len(tasks) = threads

\* C8 amended: with 1 <= worker_count <= height there is one task per band,
\* the bands number ceil(height / rows_per_band), and that is at least one
\* and at most worker_count.
BandCountAtMostWorkers ==
    (AllSpawned /\ Width > 0 /\ Height > 0 /\ threads <= Height) =>
        /\ Len(tasks) = Len(bands)
        /\ Len(tasks) = Ceil(Height, rows_per_band)
        /\ 1 <= Len(tasks) /\ Len(tasks) <= threads

\* fewer bands than workers although the workers do not outnumber the rows
BandCountWitness ==
    /\ AllSpawned
    /\ threads <= Height
    /\ threads >= 3
    /\ Len(tasks) < threads

\* C9: with more workers than rows rows_per_band is 1, every band has one
\* row, and exactly height band tasks are spawned.
DegenerateWorkerCount ==
    (BandsBuilt /\ Width > 0 /\ Height > 0 /\ threads > Height) =>
        /\ rows_per_band = 1
        /\ \A n \in 1..Len(bands) : bands[n].len \div Width = 1
        /\ Len(bands) = Height
        /\ AllSpawned => Len(tasks) = Height
        /\ \A t \in 1..Len(tasks) : tasks[t].bounds[2] = 1

\* all tasks spawned for an image of several rows and more workers than rows
DegenerateWorkerCountWitness ==
    AllSpawned /\ Height >= 3 /\ threads > Height /\ Len(tasks) = Height

\* C10: when the argument count is wrong or an argument does not parse, main
\* ends in a configuration error, and in no state of such a run is the buffer
\* allocated, a task spawned or the output file created.
ConfigErrorsPrecedeWork ==
    /\ ConfigBad =>
          /\ pc \in {"check_args", "parse_bounds", "parse_upper_left",
                     "parse_lower_right", "failed"}
          /\ pc = "failed" => error \in ConfigErrors
    /\ (ConfigBad \/ error \in ConfigErrors) =>
          /\ ~allocated
          /\ tasks = <<>>
          /\ output = "absent"
          /\ bands = <<>>

\* main has rejected the last argument after accepting the others
ConfigErrorsWitness ==
    pc = "failed" /\ error = "lower_right" /\ Len(args) = ArgCount

\* the number of pixel writes the t-th band task has made
Writes(t) ==
    Cardinality({w \in UNION {{idx} \X (1..Len(writers[idx])) :
                                 idx \in DOMAIN writers} :
                    writers[w[1]][w[2]] = tasks[t].band})

\* C11: in a run with valid arguments and positive bounds in which no task
\* panics and every thread is scheduled fairly, write_image is eventually
\* called, with every band task returned after exactly width * band_height
\* pixel writes.
Completion ==
    (allocated /\ Width > 0 /\ Height > 0) ~>
        /\ EncoderStarted
        /\ Len(tasks) = Len(bands)
        /\ \A t \in 1..Len(tasks) :
              /\ tasks[t].status = "done"
              /\ Writes(t) = Width * tasks[t].bounds[2]

\* write_image has been called after a render of several bands
CompletionWitness ==
    /\ pc = "write_image"
    /\ Len(tasks) >= 3
    /\ \A t \in 1..Len(tasks) : tasks[t].status = "done"

\* the viewport is the single point 0
Degenerate == upper_left = Complex(0, 0) /\ lower_right = Complex(0, 0)

\* C12: with upper_left = lower_right = (0, 0) and positive bounds, every
\* pixel maps to the point 0, escape_time(0, limit) returns None for every
\* positive limit, and render stores 16 at every pixel it writes, so that the
\* whole slice holds 16 when it returns.
DegenerateViewport ==
    /\ (call.fn = "render" /\ Degenerate) =>
          /\ \A column \in 0..(Width - 1), row \in 0..(Height - 1) :
                pixel_to_point(bounds, <<column, row>>, upper_left,
                               lower_right) = Complex(0, 0)
          /\ \A idx \in DOMAIN pixels :
                writers[idx] # <<>> => pixels[idx] = InSet
          /\ tasks[1].status # "panicked"
          /\ tasks[1].status = "done" =>
                \A idx \in DOMAIN pixels : pixels[idx] = InSet
    /\ (call.fn = "escape_time" /\ call.c = Complex(0, 0) /\ call.limit > 0
            /\ result # <<>>) =>
          ~result[1].ok

\* render has returned from the call of test_render
DegenerateViewportWitness ==
    /\ call.fn = "render"
    /\ Degenerate
    /\ bounds = <<10, 10>>
    /\ tasks[1].status = "done"

\* pixel_to_point has returned
PointReturned == call.fn = "pixel_to_point" /\ result # <<>>

\* the call of test_pixel_to_point
TestPixelToPoint ==
    /\ call.bounds = <<100, 100>>
    /\ call.pixel = <<25, 75>>
    /\ call.upper_left = Complex(Lit(-1, 1), Lit(1, 1))
    /\ call.lower_right = Complex(Lit(1, 1), Lit(-1, 1))

\* a bound, in units of 1 / Scale, on the rounding error of the four f64
\* operations of one coordinate of pixel_to_point between corner coordinates
\* a and b: each operation rounds its result by at most 2^-Prec of it, or
\* half a unit
Tol(a, b) == (4 * (Abs(a) + Abs(b))) \div Mantissa + 2

\* x is within tol of the exact value from + n * (to - from) / d
Near(x, from, to, n, d, tol) ==
    Abs(x * d - (from * d + n * (to - from))) <= tol * d

\* C13 as stated: pixel (0, 0) maps to upper_left, pixel (width, height) maps
\* to lower_right, and the call of test_pixel_to_point returns (-0.5, -0.5).
PixelMappingExact ==
    PointReturned =>
        /\ call.pixel = <<0, 0>> => result[1] = call.upper_left
        /\ call.pixel = call.bounds => result[1] = call.lower_right
        /\ TestPixelToPoint => result[1] = Complex(Lit(-1, 2), Lit(-1, 2))

\* C13, amended: pixel_to_point returns upper_left.re + column *
\* (lower_right.re - upper_left.re) / width and upper_left.im - row *
\* (upper_left.im - lower_right.im) / height as f64 arithmetic computes them,
\* which is the exact value up to rounding; pixel (0, 0) maps to upper_left
\* exactly, pixel (width, height) maps to lower_right up to rounding, and the
\* call of test_pixel_to_point returns (-0.5, -0.5) exactly.
PixelMapping ==
    PointReturned =>
        /\ Near(result[1].re, call.upper_left.re, call.lower_right.re,
                call.pixel[1], call.bounds[1],
                Tol(call.upper_left.re, call.lower_right.re))
        /\ Near(result[1].im, call.upper_left.im, call.lower_right.im,
                call.pixel[2], call.bounds[2],
                Tol(call.upper_left.im, call.lower_right.im))
        /\ call.pixel = <<0, 0>> => result[1] = call.upper_left
        /\ call.pixel = call.bounds =>
              /\ Abs(result[1].re - call.lower_right.re)
                    <= Tol(call.upper_left.re, call.lower_right.re)
              /\ Abs(result[1].im - call.lower_right.im)
                    <= Tol(call.upper_left.im, call.lower_right.im)
        /\ TestPixelToPoint => result[1] = Complex(Lit(-1, 2), Lit(-1, 2))

\* pixel (width, height) has been mapped to a point that is not lower_right
PixelMappingWitness ==
    /\ PointReturned
    /\ call.pixel = call.bounds
    /\ result[1] # call.lower_right

\* the separator occurs in s, first at position k, and the text before it
\* and the whole text after it parse as T
SplitsAt(T, s, separator, k) ==
    /\ k \in 1..Len(s)
    /\ s[k] = separator
    /\ \A j \in 1..(k - 1) : s[j] # separator
    /\ FromStr(T, SubSeq(s, 1, k - 1)).ok
    /\ FromStr(T, SubSeq(s, k + 1, Len(s))).ok

ZAfter[z \in ComplexF64, c \in ComplexF64, n \in Nat] ==
    IF n = 0 THEN z
    ELSE IF n = 1 THEN Step(z, c)
    ELSE ZAfter[ZAfter[z, c, n \div 2], c, n - n \div 2]

\* |z|^2 > 4 after the iteration of zero-based index j from z = 0
EscapedAt(c, j) == norm_sqr(ZAfter[Complex(0, 0), c, j + 1]) > 4 * Scale

\* the number of pixels the call of render has written
Written == tasks[1].row * Width + tasks[1].column

\* the point of the pixel of index idx of the slice render is called on
PointOf(idx) ==
    pixel_to_point(bounds, <<idx % Width, idx \div Width>>, upper_left,
                   lower_right)

\* the count escape_time returns for a point with limit 255, or 16
CountOr16[e \in OptionUsize] == IF e.ok THEN e.val ELSE InSet

\* C15: a count i returned by escape_time(c, limit) is the zero-based index of
\* the first iteration after which |z|^2 > 4, and 0 <= i < limit; with limit
\* 255 the count is in 0..254 and `as u8` leaves it unchanged, so every byte
\* render writes is 16 or the count itself, in 0..254.
EscapeCountRange ==
    /\ (call.fn = "escape_time" /\ result # <<>> /\ result[1].ok) =>
          /\ result[1].val \in 0..(call.limit - 1)
          /\ EscapedAt(call.c, result[1].val)
          /\ \A j \in 0..(result[1].val - 1) : ~EscapedAt(call.c, j)
          /\ call.limit = Limit =>
                /\ result[1].val \in 0..254
                /\ AsU8(result[1].val) = result[1].val
    /\ call.fn = "render" =>
          /\ \A idx \in DOMAIN pixels :
                writers[idx] # <<>> => pixels[idx] \in 0..254
          /\ Written > 0 =>
                pixels[Written - 1] =
                    CountOr16[escape_time(PointOf(Written - 1), Limit)]

\* escape_time has returned a count beyond the small limits, with limit 255
EscapeCountRangeWitness ==
    /\ call.fn = "escape_time"
    /\ call.limit = Limit
    /\ result # <<>>
    /\ result[1].ok
    /\ result[1].val > MaxLimit + 1

\* C16: every band slice has a length that is a positive multiple of the
\* width, and the bounds passed to render with it are (width, band.len() /
\* width) with band.len() = bounds.0 * bounds.1, so that the assertion of
\* render holds for every dispatched band.
AssertionHolds ==
    /\ \A n \in 1..Len(bands) :
          bands[n].len > 0 /\ bands[n].len % Width = 0
    /\ \A t \in 1..Len(tasks) :
          /\ tasks[t].bounds = <<Width, bands[tasks[t].band].len \div Width>>
          /\ bands[tasks[t].band].len
                = tasks[t].bounds[1] * tasks[t].bounds[2]

\* render runs on a last band that is shorter than the others
AssertionHoldsWitness ==
    /\ call.fn = "main"
    /\ \E t \in 1..Len(tasks) :
          /\ tasks[t].status = "running"
          /\ t > 1
          /\ bands[tasks[t].band].len < rows_per_band * Width

\* Exact arithmetic: a rational is <<numerator, denominator>> in lowest terms
\* with a positive denominator.
GCD[a \in Nat, b \in Nat] == IF b = 0 THEN a ELSE GCD[b, a % b]

Q(num, den) ==
    LET g == GCD[Abs(num), Abs(den)]
    IN  IF den > 0 THEN <<num \div g, den \div g>>
        ELSE <<(0 - num) \div g, (0 - den) \div g>>

QAdd(x, y) == Q(x[1] * y[2] + y[1] * x[2], x[2] * y[2])

QSub(x, y) == Q(x[1] * y[2] - y[1] * x[2], x[2] * y[2])

QMul(x, y) == Q(x[1] * y[1], x[2] * y[2])

\* x / y for y # 0
QDiv(x, y) == Q(x[1] * y[2], x[2] * y[1])

\* the exact value of a Complex<f64>, in units of 1 / Scale
ExactOf(z) == Complex(Q(z.re, 1), Q(z.im, 1))

\* a mapping that divides the row offset by the width of the image, in exact
\* arithmetic
PixelToPointExactByWidth(bnds, pixel, ul, lr) ==
    LET width  == QSub(lr.re, ul.re)
        height == QSub(ul.im, lr.im)
    IN  Complex(QAdd(ul.re, QDiv(QMul(Q(pixel[1], 1), width), Q(bnds[1], 1))),
                QSub(ul.im, QDiv(QMul(Q(pixel[2], 1), height), Q(bnds[1], 1))))

\* pixel_to_point with every operation exact
PixelToPointExact(bnds, pixel, ul, lr) ==
    LET width  == QSub(lr.re, ul.re)
        height == QSub(ul.im, lr.im)
    IN  Complex(QAdd(ul.re, QDiv(QMul(Q(pixel[1], 1), width), Q(bnds[1], 1))),
                QSub(ul.im, QDiv(QMul(Q(pixel[2], 1), height), Q(bnds[2], 1))))

\* C17: in exact arithmetic, mapping a band-local pixel (column, row) with
\* the bounds (width, h) of the band and the corners derived for it, the
\* points of the full-image pixels (0, top) and (width, top + h), gives the
\* point of the full-image pixel (column, top + row) under the full bounds
\* and the original corners.
BandViewportConsistency ==
    \A t \in 1..Len(tasks) :
        LET top == rows_per_band * (tasks[t].band - 1)
            h   == tasks[t].bounds[2]
            ul  == ExactOf(upper_left)
            lr  == ExactOf(lower_right)
            band_upper_left  == PixelToPointExact(bounds, <<0, top>>, ul, lr)
            band_lower_right ==
                PixelToPointExact(bounds, <<Width, top + h>>, ul, lr)
        IN  \A column \in 0..(Width - 1), row \in 0..(h - 1) :
                PixelToPointExact(<<Width, h>>, <<column, row>>,
                                  band_upper_left, band_lower_right)
                    = PixelToPointExact(bounds, <<column, top + row>>, ul, lr)

\* a band below the first has several rows
BandViewportConsistencyWitness ==
    /\ call.fn = "main"
    /\ upper_left # lower_right
    /\ \E t \in 1..Len(tasks) :
          tasks[t].band > 1 /\ tasks[t].bounds[2] >= 2

\* C18: with positive width, height and worker count there is at least one
\* band and at most one per worker, every band has at least one row, and so
\* has every task spawned; once the loop has ended there is at least one task
\* and never more tasks than workers.
BoundedFanOut ==
    (Width > 0 /\ Height > 0) =>
        /\ BandsBuilt =>
              /\ Len(bands) \in 1..threads
              /\ \A n \in 1..Len(bands) : bands[n].len >= Width
        /\ Len(tasks) <= threads
        /\ \A t \in 1..Len(tasks) : tasks[t].bounds[2] >= 1
        /\ AllSpawned => Len(tasks) >= 1

\* more workers than rows: one band per row, fewer tasks than workers
BoundedFanOutWitness ==
    /\ call.fn = "main"
    /\ AllSpawned
    /\ Height >= 2
    /\ threads > Height
    /\ Len(tasks) = Height


=============================================================================
